---- MODULE Spec2Model ----
(***************************************************************************)
(* Tile cache, fetch coordination and viewport tile set of MapWidget       *)
(* (src/src/ui/mapwidget.cpp), as a state machine.                         *)
(*                                                                         *)
(* Geography is held in fixed point: a position is (x, y) with             *)
(* x = longitude + 180 in whole degrees and y = the Web-Mercator           *)
(* normalised ordinate times 360, so that the tile index at zoom z is      *)
(* (pos * 2^z) \div 360 on both axes, as in loadTileMap.                   *)
(*                                                                         *)
(* Time is counted in ticks, TicksPerDay ticks to a calendar day, all      *)
(* changes of date falling on multiples of TicksPerDay.                    *)
(***************************************************************************)
EXTENDS Integers, Sequences, FiniteSets, Bags, TLC

VARIABLES
    m_zoom,             \* current zoom level
    m_centerGeo,        \* <<x, y>> fixed-point position of the view centre
    m_centerTileX,      \* centre tile of the current grid
    m_centerTileY,
    m_dragging,         \* a drag is in progress
    m_dragStartGeo,     \* centre at mousePress
    m_activeTileServer, \* "openstreetmap" or "satellite"
    m_tiles,            \* sequence of pixmaps
    m_tilePositions,    \* sequence of <<dx, dy>>, parallel to m_tiles
    m_pendingTiles,     \* function url -> <<x, y, offsetX, offsetY>>
    replies,            \* bag of interactive requests whose reply has not finished
    prefetchReplies,    \* bag of prefetch requests whose reply has not finished
    prefetchTimers,     \* number of armed QTimer::singleShot(500) prefetch timers
    widgetSize,         \* <<width(), height()>>
    viewTransform,      \* *m_viewTransform: [m_center, m_zoom, m_viewSize]
    config,             \* values read once by initializeFromConfig
    cacheDir,           \* the cache directory on disk: [exists, files]
    now,                \* the clock, in ticks
    events,             \* number of user events handled so far
    finished,           \* number of network replies finished so far
    cacheOps,           \* number of direct calls of the cache and prefetch functions so far
    last                \* what the last step did (history, read by properties only)

vars == <<m_zoom, m_centerGeo, m_centerTileX, m_centerTileY, m_dragging,
          m_dragStartGeo, m_activeTileServer, m_tiles, m_tilePositions,
          m_pendingTiles, replies, prefetchReplies, prefetchTimers,
          widgetSize, viewTransform, config, cacheDir, now, events, finished, cacheOps, last>>

-----------------------------------------------------------------------------
(* Bounds of the model *)

TicksPerDay == 2            \* clock resolution
MaxNow == 16                \* the clock stops here
MaxTimers == 2              \* armed prefetch timers at any time
MaxPrefetchReplies == 3     \* outstanding prefetch replies at any time
MaxEvents == 2              \* user events in one run of the widget
MaxFinished == 2            \* network replies finished in one run of the widget
MaxCacheOps == 3            \* direct calls of the cache functions in one run
MaxPrefetchCalls == 2       \* direct calls of prefetchTiles in one run
MaxRadius == 3              \* largest radius passed to prefetchTiles
MaxPathZoom == 4            \* largest zoom whose cache paths are compared
MaxGridWidth == 10          \* widest widget of the grid sweep, in units of 256 pixels
MaxGridHeight == 6          \* highest widget of the grid sweep, in units of 256 pixels

(* Program constants *)

StaleDays == 7              \* loadTileFromCache
BytesPerMB == 1048576       \* 1024 * 1024, ensureCacheSize
WorldDegrees == 360         \* loadTileMap
GridMargin == 3             \* loadTileMap
MaxTilesX == 8              \* loadTileMap
MaxTilesY == 6              \* loadTileMap
ForceReload == -999         \* resizeEvent, mouseMoveEvent, mouseReleaseEvent
MaxPrefetchTiles_Fifty == 25 + 25   \* variant: a limit of fifty requests
MaxPrefetchTiles == 25      \* prefetchTiles
HanoiMinX == 285            \* qBound(105.0, newLon, 107.0), plus 180
HanoiMaxX == 287
HanoiMinY == 158            \* qBound(20.5, newLat, 21.5), projected: 157.98 .. 159.05
HanoiMaxY == 159

Servers == {"openstreetmap", "satellite"}

-----------------------------------------------------------------------------
(* Small helpers *)

Min(a, b) == IF a < b THEN a ELSE b
Max(a, b) == IF a > b THEN a ELSE b
Abs(a) == IF a < 0 THEN -a ELSE a
Pow2(n) == 2 ^ n

\* C++ integer division truncates toward zero
CDiv(a, b) == IF a >= 0 THEN a \div b ELSE -((-a) \div b)

qBound(lo, v, hi) == Max(lo, Min(hi, v))

RECURSIVE SumOver(_, _)
SumOver(f, S) ==
    IF S = {} THEN 0
    ELSE LET e == CHOOSE e \in S : TRUE IN f[e] + SumOver(f, S \ {e})

\* decimal digits of a natural number, most significant first
RECURSIVE Digits(_)
Digits(n) == IF n < 10 THEN <<n>> ELSE Append(Digits(n \div 10), n % 10)

\* lexicographic order on sequences of numbers, a proper prefix being smaller
RECURSIVE SeqLess(_, _)
SeqLess(a, b) ==
    IF b = <<>> THEN FALSE
    ELSE IF a = <<>> THEN TRUE
    ELSE IF Head(a) # Head(b) THEN Head(a) < Head(b)
    ELSE SeqLess(Tail(a), Tail(b))

-----------------------------------------------------------------------------
(* Pixmaps, image data, URLs and cache paths *)

NullPixmap == [kind |-> "null"]

\* the imagery a tile server holds at a URL; bytes is the size of its PNG encoding
ServerTile(url, bytes) == [kind |-> "real", url |-> url, bytes |-> bytes]

\* createFallbackTile(tileX, tileY): drawn from the tile coordinates, the text
\* also showing the zoom current at the time of the call
createFallbackTile(zoom, tileX, tileY) ==
    [kind |-> "fallback", z |-> zoom, x |-> tileX, y |-> tileY,
     bytes |-> BytesPerMB \div 2]

GarbageData == [fmt |-> "garbage"]

\* variant: an encoding that does not keep the picture
EncodePng_Lossy(pix) == [fmt |-> "png", pix |-> [pix EXCEPT !.bytes = 1]]

\* QPixmap::save(path, "PNG"): the bytes written
EncodePng(pix) == [fmt |-> "png", pix |-> pix]

\* QPixmap::loadFromData / QPixmap::load: the null pixmap when the bytes do not decode
DecodeImage(data) == IF data.fmt = "png" THEN data.pix ELSE NullPixmap

DataSize(data) == IF data.fmt = "png" THEN data.pix.bytes ELSE 1

getTileServerHost(serverName) ==
    IF serverName = "openstreetmap" THEN "tile.openstreetmap.org"
    ELSE IF serverName = "satellite" THEN "server.arcgisonline.com"
    ELSE "tile.openstreetmap.org"

\* the URL template of the active server with {z}, {x}, {y} replaced
TileUrl(serverName, z, x, y) ==
    [host |-> getTileServerHost(serverName), z |-> z, x |-> x, y |-> y]

\* cacheDirectory/server/zoom/x/y.png, as its components below the cache root
getTileCachePath(z, x, y, serverName) == <<serverName, z, x, y>>

\* The text of a cache path, as a sequence of pieces: the directory and the
\* server name are one piece each, every other character is a piece.

\* "%1/%2/%3/%4/%5.png" with the slashes left out (variant)
PathTemplate_NoSlashes == <<"%1", "%2", "%3", "%4", "%5", ".png">>

\* QString("%1/%2/%3/%4/%5.png")
PathTemplate == <<"%1", "/", "%2", "/", "%3", "/", "%4", "/", "%5", ".png">>

PlaceMarkers == <<"%1", "%2", "%3", "%4", "%5">>

\* QString::arg(a): every occurrence of the lowest-numbered place marker of
\* the text is replaced by a
RECURSIVE ReplaceAll(_, _, _)
ReplaceAll(text, marker, a) ==
    IF text = <<>> THEN <<>>
    ELSE (IF Head(text) = marker THEN a ELSE <<Head(text)>>)
            \o ReplaceAll(Tail(text), marker, a)

QStringArg(text, a) ==
    LET present == {n \in 1 .. Len(PlaceMarkers) :
                       \E i \in 1 .. Len(text) : text[i] = PlaceMarkers[n]}
    IN IF present = {} THEN text
       ELSE ReplaceAll(text,
                       PlaceMarkers[CHOOSE n \in present : \A k \in present : n <= k],
                       a)

DigitChars == <<"0", "1", "2", "3", "4", "5", "6", "7", "8", "9">>

\* QString::arg(int): the number in decimal
NumberText(n) == [i \in 1 .. Len(Digits(n)) |-> DigitChars[Digits(n)[i] + 1]]

\* m_cacheDirectory, from the configuration
CacheDirectoryName == "resources/tiles"

\* getTileCachePath as text
CachePathText(cacheDirectory, z, x, y, serverName) ==
    QStringArg(QStringArg(QStringArg(QStringArg(QStringArg(PathTemplate,
        <<cacheDirectory>>), <<serverName>>), NumberText(z)), NumberText(x)),
        NumberText(y))

ServerNameLess(a, b) == a = "openstreetmap" /\ b = "satellite"

\* order of the absolute file names as strings: '/' and '.' sort before the digits
PathLess(p, q) ==
    IF p[1] # q[1] THEN ServerNameLess(p[1], q[1])
    ELSE IF p[2] # q[2] THEN SeqLess(Digits(p[2]), Digits(q[2]))
    ELSE IF p[3] # q[3] THEN SeqLess(Digits(p[3]), Digits(q[3]))
    ELSE SeqLess(Digits(p[4]), Digits(q[4]))

-----------------------------------------------------------------------------
(* The disk cache.  A cache directory is [exists |-> BOOLEAN, files |-> f],  *)
(* f a function from the paths of the files present to [mtime, data].       *)

NoFiles == [p \in {} |-> 0]

FileSizes(dir) == [p \in DOMAIN dir.files |-> DataSize(dir.files[p].data)]

getCacheSizeBytes(enabled, dir) ==
    IF ~enabled THEN 0
    ELSE IF ~dir.exists THEN 0
    ELSE SumOver(FileSizes(dir), DOMAIN dir.files)

\* QDateTime::daysTo: the number of times midnight is reached from a to b
daysTo(a, b) == (b \div TicksPerDay) - (a \div TicksPerDay)

\* variant: the order reversed on the modification time
CacheFileLess_NewestFirst(files, p, q) ==
    \/ files[p].mtime > files[q].mtime
    \/ files[p].mtime = files[q].mtime /\ PathLess(p, q)

\* operator< of QPair<QDateTime, QString>
CacheFileLess(files, p, q) ==
    \/ files[p].mtime < files[q].mtime
    \/ files[p].mtime = files[q].mtime /\ PathLess(p, q)

\* std::sort(cacheFiles.begin(), cacheFiles.end())
RECURSIVE SortCacheFiles(_, _)
SortCacheFiles(files, S) ==
    IF S = {} THEN <<>>
    ELSE LET first == CHOOSE p \in S : \A q \in S \ {p} : CacheFileLess(files, p, q)
         IN <<first>> \o SortCacheFiles(files, S \ {first})

\* the removal loop of ensureCacheSize over the sorted list
RECURSIVE RemoveOldest(_, _, _, _, _)
RemoveOldest(files, sorted, currentSize, removedSize, maxSizeBytes) ==
    IF sorted = <<>> THEN files
    ELSE IF currentSize - removedSize <= maxSizeBytes THEN files
    ELSE LET p == Head(sorted)
             fileSize == DataSize(files[p].data)
             rest == [q \in DOMAIN files \ {p} |-> files[q]]
         IN RemoveOldest(rest, Tail(sorted), currentSize, removedSize + fileSize,
                         maxSizeBytes)

\* variant: nothing is removed
ensureCacheSize_KeepsAll(enabled, maxCacheSizeMB, dir) == dir

ensureCacheSize(enabled, maxCacheSizeMB, dir) ==
    IF ~enabled THEN dir
    ELSE LET maxSizeBytes == maxCacheSizeMB * 1024 * 1024
             currentSize == getCacheSizeBytes(enabled, dir)
         IN IF currentSize <= maxSizeBytes THEN dir
            ELSE [dir EXCEPT !.files =
                     RemoveOldest(dir.files,
                                  SortCacheFiles(dir.files, DOMAIN dir.files),
                                  currentSize, 0, maxSizeBytes)]

\* variant: the file is not removed
RemoveFile_Fails(dir, path) == dir

\* QFile::remove
RemoveFile(dir, path) ==
    [dir EXCEPT !.files = [q \in DOMAIN dir.files \ {path} |-> dir.files[q]]]

\* loadTileFromCache: [hit, tile, dir], dir the directory as the call leaves it
loadTileFromCache(enabled, dir, clock, z, x, y, serverName) ==
    LET cachePath == getTileCachePath(z, x, y, serverName)
        miss(d) == [hit |-> FALSE, tile |-> NullPixmap, dir |-> d]
    IN IF ~enabled THEN miss(dir)
       ELSE IF dir.exists /\ cachePath \in DOMAIN dir.files
       THEN LET file == dir.files[cachePath]
            IN IF daysTo(file.mtime, clock) > StaleDays
               THEN miss(RemoveFile(dir, cachePath))
               ELSE IF DecodeImage(file.data) # NullPixmap
               THEN [hit |-> TRUE, tile |-> DecodeImage(file.data), dir |-> dir]
               ELSE miss(RemoveFile(dir, cachePath))
       ELSE miss(dir)

\* the outcomes of the directory creation and of the file write
IoOutcomes == {"ok", "mkpathFailed", "saveFailed"}

\* the file write of saveTileToCache, before ensureCacheSize runs
WriteTileFile(dir, clock, cachePath, tile) ==
    [exists |-> TRUE,
     files |-> [q \in DOMAIN dir.files \cup {cachePath} |->
                   IF q = cachePath
                   THEN [mtime |-> clock, data |-> EncodePng(tile)]
                   ELSE dir.files[q]]]

saveTileToCache(enabled, maxCacheSizeMB, dir, clock, z, x, y, serverName, tile, io) ==
    IF ~enabled \/ tile = NullPixmap THEN dir
    ELSE LET cachePath == getTileCachePath(z, x, y, serverName)
         IN IF io = "mkpathFailed" /\ cachePath \notin DOMAIN dir.files THEN dir
            ELSE IF io = "ok"
            THEN ensureCacheSize(enabled, maxCacheSizeMB,
                                 WriteTileFile(dir, clock, cachePath, tile))
            ELSE [dir EXCEPT !.exists = TRUE]

\* variant: the files are left in place
clearTileCache_KeepsFiles(enabled, dir) == [dir EXCEPT !.exists = TRUE]

clearTileCache(enabled, dir) ==
    IF ~enabled THEN dir
    ELSE IF dir.exists THEN [exists |-> TRUE, files |-> NoFiles]
    ELSE dir

-----------------------------------------------------------------------------
(* The widget.  A handler is a function on the record of the fields it may  *)
(* read or write; an action installs the record its handler returns.        *)

Widget ==
    [zoom |-> m_zoom, center |-> m_centerGeo, ctX |-> m_centerTileX,
     ctY |-> m_centerTileY, dragging |-> m_dragging, dragStart |-> m_dragStartGeo,
     server |-> m_activeTileServer, tiles |-> m_tiles, positions |-> m_tilePositions,
     pending |-> m_pendingTiles, replies |-> replies, prefetch |-> prefetchReplies,
     timers |-> prefetchTimers, size |-> widgetSize, dir |-> cacheDir,
     vt |-> viewTransform]

Install(w) ==
    /\ m_zoom' = w.zoom
    /\ m_centerGeo' = w.center
    /\ m_centerTileX' = w.ctX
    /\ m_centerTileY' = w.ctY
    /\ m_dragging' = w.dragging
    /\ m_dragStartGeo' = w.dragStart
    /\ m_activeTileServer' = w.server
    /\ m_tiles' = w.tiles
    /\ m_tilePositions' = w.positions
    /\ m_pendingTiles' = w.pending
    /\ replies' = w.replies
    /\ prefetchReplies' = w.prefetch
    /\ prefetchTimers' = w.timers
    /\ widgetSize' = w.size
    /\ cacheDir' = w.dir
    /\ viewTransform' = w.vt

\* (int)((lon + 180.0) / 360.0 * (1 << zoom)), and the same on the projected ordinate
TileIndex(pos, zoom) == CDiv(pos * Pow2(zoom), WorldDegrees)

\* variant: the first row and column of the world are taken as invalid
ValidTile_FromOne(zoom, tileX, tileY) ==
    ~(tileX <= 0 \/ tileY <= 0 \/ tileX >= Pow2(zoom) \/ tileY >= Pow2(zoom))

\* variant: only negative coordinates are taken as invalid
ValidTile_NoUpperBound(zoom, tileX, tileY) == ~(tileX < 0 \/ tileY < 0)

ValidTile(zoom, tileX, tileY) ==
    ~(tileX < 0 \/ tileY < 0 \/ tileX >= Pow2(zoom) \/ tileY >= Pow2(zoom))

\* the offsets -half .. half one loop of loadTileMap runs through, in order
GridRange(half) == [i \in 1 .. 2 * half + 1 |-> i - 1 - half]

GridHalfX(size, tileSize) == CDiv(Min(CDiv(size[1], tileSize) + GridMargin, MaxTilesX), 2)
GridHalfY(size, tileSize) == CDiv(Min(CDiv(size[2], tileSize) + GridMargin, MaxTilesY), 2)

NoPending == [u \in {} |-> 0]

\* variant: no check of m_pendingTiles before the request is sent
loadTileAsync_NoPendingCheck(w, z, x, y, offsetX, offsetY) ==
    LET url == TileUrl(w.server, z, x, y)
    IN [w EXCEPT
          !.pending = [u \in DOMAIN w.pending \cup {url} |->
                         IF u = url THEN <<x, y, offsetX, offsetY>>
                         ELSE w.pending[u]],
          !.replies = @ (+) SetToBag({[url |-> url, z |-> z, x |-> x, y |-> y,
                                       offsetX |-> offsetX, offsetY |-> offsetY]})]

loadTileAsync(w, z, x, y, offsetX, offsetY) ==
    LET url == TileUrl(w.server, z, x, y)
    IN IF url \in DOMAIN w.pending THEN w
       ELSE [w EXCEPT
               !.pending = [u \in DOMAIN w.pending \cup {url} |->
                              IF u = url THEN <<x, y, offsetX, offsetY>>
                              ELSE w.pending[u]],
               !.replies = @ (+) SetToBag({[url |-> url, z |-> z, x |-> x, y |-> y,
                                            offsetX |-> offsetX, offsetY |-> offsetY]})]

\* the inner loop of loadTileMap (over dy, for one dx): places a cached tile or
\* a placeholder at every valid offset and collects the misses; [w, tilesToLoad]
RECURSIVE PlaceColumn(_, _, _, _, _)
PlaceColumn(w, clock, dx, dys, tilesToLoad) ==
    IF dys = <<>> THEN [w |-> w, tilesToLoad |-> tilesToLoad]
    ELSE LET dy == Head(dys)
             tileX == w.ctX + dx
             tileY == w.ctY + dy
         IN IF ~ValidTile(w.zoom, tileX, tileY)
            THEN PlaceColumn(w, clock, dx, Tail(dys), tilesToLoad)
            ELSE LET c == loadTileFromCache(config.cacheEnabled, w.dir, clock,
                                            w.zoom, tileX, tileY, w.server)
                 IN IF c.hit
                    THEN PlaceColumn([w EXCEPT !.dir = c.dir,
                                               !.tiles = Append(@, c.tile),
                                               !.positions = Append(@, <<dx, dy>>)],
                                     clock, dx, Tail(dys), tilesToLoad)
                    ELSE PlaceColumn([w EXCEPT !.dir = c.dir,
                                               !.tiles = Append(@, createFallbackTile(w.zoom, tileX, tileY)),
                                               !.positions = Append(@, <<dx, dy>>)],
                                     clock, dx, Tail(dys),
                                     Append(tilesToLoad, <<tileX, tileY, dx, dy>>))

\* the outer loop of loadTileMap (over dx); [w, tilesToLoad]
RECURSIVE PlaceTiles(_, _, _, _, _)
PlaceTiles(w, clock, dxs, dys, tilesToLoad) ==
    IF dxs = <<>> THEN [w |-> w, tilesToLoad |-> tilesToLoad]
    ELSE \* the column is computed once and handed on
         CHOOSE r \in {PlaceTiles(column.w, clock, Tail(dxs), dys, column.tilesToLoad) :
                          column \in {PlaceColumn(w, clock, Head(dxs), dys, tilesToLoad)}} :
            TRUE

\* the loop of loadTileMap over tilesToLoad
RECURSIVE StartLoads(_, _)
StartLoads(w, tilesToLoad) ==
    IF tilesToLoad = <<>> THEN w
    ELSE \* the widget after one request is computed before the loop goes on
         CHOOSE r \in {StartLoads(next, Tail(tilesToLoad)) :
                          next \in {loadTileAsync(w, w.zoom, Head(tilesToLoad)[1],
                                                  Head(tilesToLoad)[2], Head(tilesToLoad)[3],
                                                  Head(tilesToLoad)[4])}} :
            TRUE

\* loadTileMap returns early: the centre tile has not moved, no drag, tiles present
KeepsGrid(w) ==
    /\ ~w.dragging
    /\ Abs(TileIndex(w.center[1], w.zoom) - w.ctX) < 1
    /\ Abs(TileIndex(w.center[2], w.zoom) - w.ctY) < 1
    /\ w.tiles # <<>>

loadTileMap(w, clock) ==
    IF KeepsGrid(w) THEN w
    ELSE LET w1 == [w EXCEPT !.ctX = TileIndex(w.center[1], w.zoom),
                             !.ctY = TileIndex(w.center[2], w.zoom),
                             !.tiles = <<>>,
                             !.positions = <<>>]
             placed == PlaceTiles(w1, clock,
                                  GridRange(GridHalfX(w.size, config.tileSize)),
                                  GridRange(GridHalfY(w.size, config.tileSize)),
                                  <<>>)
             w2 == StartLoads(placed.w, placed.tilesToLoad)
         IN IF ~w.dragging THEN [w2 EXCEPT !.timers = @ + 1] ELSE w2

\* variant: the tile is added whenever the zoom matches
onTileLoaded_NoOffsetCheck(w, z, x, y, offsetX, offsetY, tile) ==
    IF z # w.zoom THEN w
    ELSE [w EXCEPT !.tiles = Append(@, tile),
                   !.positions = Append(@, <<offsetX, offsetY>>)]

onTileLoaded(w, z, x, y, offsetX, offsetY, tile) ==
    IF z # w.zoom THEN w
    ELSE IF \E i \in 1 .. Len(w.positions) : w.positions[i] = <<offsetX, offsetY>>
    THEN [w EXCEPT !.tiles = Append(@, tile),
                   !.positions = Append(@, <<offsetX, offsetY>>)]
    ELSE w

\* what a reply can bring: an error, or data that may or may not decode
ReplyOutcomes == {"image", "undecodable", "error"}

ReplyData(outcome, url, bytes) ==
    IF outcome = "image" THEN EncodePng(ServerTile(url, bytes)) ELSE GarbageData

\* variant: the fallback tile of a failed fetch is saved like a server image
onReplyFinished_SavesFallback(w, clock, req, outcome, bytes, io) ==
    LET w1 == [w EXCEPT !.pending = [u \in DOMAIN w.pending \ {req.url} |-> w.pending[u]],
                        !.replies = @ (-) SetToBag({req})]
        decoded == IF outcome # "error"
                   THEN DecodeImage(ReplyData(outcome, req.url, bytes))
                   ELSE NullPixmap
        tile == IF decoded # NullPixmap THEN decoded
                ELSE createFallbackTile(w1.zoom, req.x, req.y)
    IN onTileLoaded(
           [w1 EXCEPT !.dir = saveTileToCache(config.cacheEnabled,
                                  config.maxCacheSizeMB, w1.dir, clock,
                                  req.z, req.x, req.y, w1.server, tile, io)],
           req.z, req.x, req.y, req.offsetX, req.offsetY, tile)

\* variant: the image is delivered only when the cache write left its file
onReplyFinished_NeedsCacheWrite(w, clock, req, outcome, bytes, io) ==
    LET w1 == [w EXCEPT !.pending = [u \in DOMAIN w.pending \ {req.url} |-> w.pending[u]],
                        !.replies = @ (-) SetToBag({req})]
        tile == IF outcome # "error"
                THEN DecodeImage(ReplyData(outcome, req.url, bytes))
                ELSE NullPixmap
        saved == saveTileToCache(config.cacheEnabled, config.maxCacheSizeMB, w1.dir,
                                 clock, req.z, req.x, req.y, w1.server, tile, io)
    IN IF tile = NullPixmap
       THEN onTileLoaded(w1, req.z, req.x, req.y, req.offsetX, req.offsetY,
                         createFallbackTile(w1.zoom, req.x, req.y))
       ELSE IF getTileCachePath(req.z, req.x, req.y, w1.server) \in DOMAIN saved.files
       THEN onTileLoaded([w1 EXCEPT !.dir = saved],
                         req.z, req.x, req.y, req.offsetX, req.offsetY, tile)
       ELSE [w1 EXCEPT !.dir = saved]

\* variant: the pending entry is removed only when the reply carries no error
onReplyFinished_KeepsPendingOnError(w, clock, req, outcome, bytes, io) ==
    LET w0 == [w EXCEPT !.replies = @ (-) SetToBag({req})]
        w1 == [w0 EXCEPT !.pending = [u \in DOMAIN w.pending \ {req.url} |-> w.pending[u]]]
    IN IF outcome # "error"
       THEN LET tile == DecodeImage(ReplyData(outcome, req.url, bytes))
            IN IF tile # NullPixmap
               THEN onTileLoaded(
                        [w1 EXCEPT !.dir = saveTileToCache(config.cacheEnabled,
                                               config.maxCacheSizeMB, w1.dir, clock,
                                               req.z, req.x, req.y, w1.server, tile, io)],
                        req.z, req.x, req.y, req.offsetX, req.offsetY, tile)
               ELSE onTileLoaded(w1, req.z, req.x, req.y, req.offsetX, req.offsetY,
                                 createFallbackTile(w1.zoom, req.x, req.y))
       ELSE onTileLoaded(w0, req.z, req.x, req.y, req.offsetX, req.offsetY,
                         createFallbackTile(w0.zoom, req.x, req.y))

\* the finished callback of loadTileAsync
onReplyFinished(w, clock, req, outcome, bytes, io) ==
    LET w1 == [w EXCEPT !.pending = [u \in DOMAIN w.pending \ {req.url} |-> w.pending[u]],
                        !.replies = @ (-) SetToBag({req})]
    IN IF outcome # "error"
       THEN LET tile == DecodeImage(ReplyData(outcome, req.url, bytes))
            IN IF tile # NullPixmap
               THEN onTileLoaded(
                        [w1 EXCEPT !.dir = saveTileToCache(config.cacheEnabled,
                                               config.maxCacheSizeMB, w1.dir, clock,
                                               req.z, req.x, req.y, w1.server, tile, io)],
                        req.z, req.x, req.y, req.offsetX, req.offsetY, tile)
               ELSE onTileLoaded(w1, req.z, req.x, req.y, req.offsetX, req.offsetY,
                                 createFallbackTile(w1.zoom, req.x, req.y))
       ELSE onTileLoaded(w1, req.z, req.x, req.y, req.offsetX, req.offsetY,
                         createFallbackTile(w1.zoom, req.x, req.y))

\* the ring offsets of prefetchTiles in loop order, rings 1 .. radius
RingOffsets(radius) ==
    LET side(r) == 2 * r + 1
        all(r) == [i \in 1 .. side(r) * side(r) |->
                      << ((i - 1) \div side(r)) - r, ((i - 1) % side(r)) - r >>]
        ring(r) == SelectSeq(all(r), LAMBDA o : ~(Abs(o[1]) # r /\ Abs(o[2]) # r))
        RECURSIVE upto(_)
        upto(r) == IF r > radius THEN <<>> ELSE ring(r) \o upto(r + 1)
    IN upto(1)

\* the body of the three nested loops of prefetchTiles
RECURSIVE PrefetchLoop(_, _, _, _, _, _)
PrefetchLoop(w, clock, offsets, centerTileX, centerTileY, tilesRequested) ==
    IF offsets = <<>> \/ ~(tilesRequested < MaxPrefetchTiles) THEN w
    ELSE LET tileX == centerTileX + Head(offsets)[1]
             tileY == centerTileY + Head(offsets)[2]
         IN IF ~ValidTile(w.zoom, tileX, tileY)
            THEN PrefetchLoop(w, clock, Tail(offsets), centerTileX, centerTileY,
                              tilesRequested)
            ELSE LET c == loadTileFromCache(config.cacheEnabled, w.dir, clock,
                                            w.zoom, tileX, tileY, w.server)
                 IN IF c.hit
                    THEN PrefetchLoop([w EXCEPT !.dir = c.dir], clock, Tail(offsets),
                                      centerTileX, centerTileY, tilesRequested)
                    ELSE PrefetchLoop(
                             [w EXCEPT !.dir = c.dir,
                                       !.prefetch = @ (+) SetToBag({
                                           [url |-> TileUrl(w.server, w.zoom, tileX, tileY),
                                            tileX |-> tileX, tileY |-> tileY]})],
                             clock, Tail(offsets), centerTileX, centerTileY,
                             tilesRequested + 1)

prefetchTiles(w, clock, radius) ==
    IF ~config.cacheEnabled THEN w
    ELSE PrefetchLoop(w, clock, RingOffsets(radius),
                      TileIndex(w.center[1], w.zoom), TileIndex(w.center[2], w.zoom), 0)

\* variant: a failed prefetch puts a fallback tile at the centre of the grid
onPrefetchFinished_PlacesFallback(w, clock, req, outcome, bytes, io) ==
    LET w1 == [w EXCEPT !.prefetch = @ (-) SetToBag({req})]
        tile == IF outcome # "error"
                THEN DecodeImage(ReplyData(outcome, req.url, bytes))
                ELSE NullPixmap
    IN IF tile # NullPixmap
       THEN [w1 EXCEPT !.dir = saveTileToCache(config.cacheEnabled,
                                   config.maxCacheSizeMB, w1.dir, clock,
                                   w1.zoom, req.tileX, req.tileY, w1.server,
                                   tile, io)]
       ELSE [w1 EXCEPT !.tiles = Append(@, createFallbackTile(w1.zoom, req.tileX, req.tileY)),
                       !.positions = Append(@, <<0, 0>>)]

\* the finished callback of prefetchTiles: zoom and server are read when it runs
onPrefetchFinished(w, clock, req, outcome, bytes, io) ==
    LET w1 == [w EXCEPT !.prefetch = @ (-) SetToBag({req})]
    IN IF outcome # "error"
       THEN LET tile == DecodeImage(ReplyData(outcome, req.url, bytes))
            IN IF tile # NullPixmap
               THEN [w1 EXCEPT !.dir = saveTileToCache(config.cacheEnabled,
                                           config.maxCacheSizeMB, w1.dir, clock,
                                           w1.zoom, req.tileX, req.tileY, w1.server,
                                           tile, io)]
               ELSE w1
       ELSE w1

-----------------------------------------------------------------------------
(* Construction *)

\* the configurations explored: zoom range, tile size, cache settings, default centre
WidgetConfigs ==
    [minZoom : {0}, maxZoom : {1}, defaultZoom : {1}, tileSize : {512},
     cacheEnabled : {TRUE}, maxCacheSizeMB : {1},
     defaultCenter : {<<286, 158>>}]

WidgetSizes == {<<400, 300>>}
ResizeSizes == {<<400, 300>>, <<1024, 300>>}
DragOffsets == {<<0, 0>>, <<1, 0>>}
TileBytes == {BytesPerMB}
TickSteps == {7, 8}

-----------------------------------------------------------------------------
(* ViewTransform *)

MIN_ZOOM == 3
MAX_ZOOM == 18

\* ViewTransform(center, zoom, viewSize, parent): the fields as given, unclamped
ViewTransform(center, zoom, viewSize) ==
    [m_center |-> center, m_zoom |-> zoom, m_viewSize |-> viewSize]

\* each setter returns the object after the call and the signals the call emitted
setCenter(vt, center) ==
    IF vt.m_center # center
    THEN [vt |-> [vt EXCEPT !.m_center = center],
          emitted |-> <<"centerChanged", "transformChanged">>]
    ELSE [vt |-> vt, emitted |-> <<>>]

\* variant: the zoom is stored as given
setZoom_NoClamp(vt, zoom) ==
    IF vt.m_zoom # zoom
    THEN [vt |-> [vt EXCEPT !.m_zoom = zoom],
          emitted |-> <<"zoomChanged", "transformChanged">>]
    ELSE [vt |-> vt, emitted |-> <<>>]

setZoom(vt, zoom) ==
    LET clampedZoom == qBound(MIN_ZOOM, zoom, MAX_ZOOM)
    IN  IF vt.m_zoom # clampedZoom
        THEN [vt |-> [vt EXCEPT !.m_zoom = clampedZoom],
              emitted |-> <<"zoomChanged", "transformChanged">>]
        ELSE [vt |-> vt, emitted |-> <<>>]

setViewSize(vt, size) ==
    IF vt.m_viewSize # size
    THEN [vt |-> [vt EXCEPT !.m_viewSize = size], emitted |-> <<"transformChanged">>]
    ELSE [vt |-> vt, emitted |-> <<>>]

zoomIn(vt) == setZoom(vt, vt.m_zoom + 1)

zoomOut(vt) == setZoom(vt, vt.m_zoom - 1)

\* MapWidget::updateViewTransform; transformChanged only schedules a repaint
updateViewTransform(w) ==
    [w EXCEPT !.vt = setViewSize(setZoom(setCenter(@, w.center).vt, w.zoom).vt, w.size).vt]

-----------------------------------------------------------------------------
(* Construction *)

\* the fields as initializeFromConfig and the constructor set them, before the
\* constructor's loadTileMap; the centre tile is not initialised (any value)
Unloaded(cfg, size, anyX, anyY) ==
    [zoom |-> cfg.defaultZoom, center |-> cfg.defaultCenter, ctX |-> anyX, ctY |-> anyY,
     dragging |-> FALSE, dragStart |-> cfg.defaultCenter, server |-> "openstreetmap",
     tiles |-> <<>>, positions |-> <<>>, pending |-> NoPending, replies |-> EmptyBag,
     prefetch |-> EmptyBag, timers |-> 0, size |-> size,
     dir |-> [exists |-> FALSE, files |-> NoFiles],
     vt |-> ViewTransform(cfg.defaultCenter, cfg.defaultZoom, size)]

InitWith(cfgs, dirs) ==
    /\ config \in cfgs
    /\ now = 0
    /\ events = 0
    /\ finished = 0
    /\ cacheOps = 0
    /\ last = [op |-> "construct", recomputed |-> TRUE]
    /\ \E size \in WidgetSizes, any \in {ForceReload, 0}, dir \in dirs :
         \E w \in {loadTileMap([Unloaded(config, size, any, any) EXCEPT !.dir = dir], 0)} :
            /\ m_zoom = w.zoom
            /\ m_centerGeo = w.center
            /\ m_centerTileX = w.ctX
            /\ m_centerTileY = w.ctY
            /\ m_dragging = w.dragging
            /\ m_dragStartGeo = w.dragStart
            /\ m_activeTileServer = w.server
            /\ m_tiles = w.tiles
            /\ m_tilePositions = w.positions
            /\ m_pendingTiles = w.pending
            /\ replies = w.replies
            /\ prefetchReplies = w.prefetch
            /\ prefetchTimers = w.timers
            /\ widgetSize = w.size
            /\ cacheDir = w.dir
            /\ viewTransform = w.vt

Init == InitWith(WidgetConfigs, {[exists |-> FALSE, files |-> NoFiles]})

-----------------------------------------------------------------------------
(* Actions *)

WithinBounds(w) ==
    /\ w.timers <= MaxTimers
    /\ BagCardinality(w.prefetch) <= MaxPrefetchReplies

\* a user event whose handler ends in loadTileMap
Reloaded(w, via) ==
    /\ events < MaxEvents
    /\ \E w2 \in {loadTileMap(w, now)} :
          /\ WithinBounds(w2)
          /\ Install(w2)
          /\ last' = [op |-> via, recomputed |-> ~KeepsGrid(w)]
    /\ events' = events + 1
    /\ UNCHANGED <<config, now, finished, cacheOps>>

ResizeEvent(size) ==
    Reloaded(updateViewTransform([Widget EXCEPT !.size = size, !.ctX = ForceReload,
                                                !.ctY = ForceReload]),
             "resize")

WheelEvent(delta) ==
    IF delta > 0 /\ m_zoom < config.maxZoom
    THEN Reloaded([Widget EXCEPT !.zoom = @ + 1], "wheel")
    ELSE IF delta < 0 /\ m_zoom > config.minZoom
    THEN Reloaded([Widget EXCEPT !.zoom = @ - 1], "wheel")
    ELSE /\ events < MaxEvents
         /\ events' = events + 1
         /\ last' = [op |-> "wheelIgnored", recomputed |-> FALSE]
         /\ Install(Widget)
         /\ UNCHANGED <<config, now, finished, cacheOps>>

MousePressEvent ==
    /\ events < MaxEvents
    /\ events' = events + 1
    /\ Install([updateViewTransform(Widget) EXCEPT !.dragging = TRUE,
                                                   !.dragStart = m_centerGeo])
    /\ last' = [op |-> "press", recomputed |-> FALSE]
    /\ UNCHANGED <<config, now, finished, cacheOps>>

MouseMoveEvent(offset) ==
    /\ m_dragging
    /\ Reloaded(updateViewTransform([Widget EXCEPT
                   !.center = << qBound(HanoiMinX, m_dragStartGeo[1] + offset[1], HanoiMaxX),
                                 qBound(HanoiMinY, m_dragStartGeo[2] + offset[2], HanoiMaxY) >>,
                   !.ctX = ForceReload, !.ctY = ForceReload]),
                "move")

MouseReleaseEvent ==
    /\ m_dragging
    /\ Reloaded(updateViewTransform([Widget EXCEPT !.dragging = FALSE,
                                                   !.ctX = ForceReload, !.ctY = ForceReload]),
                "release")

SetTileServer(serverName) ==
    /\ m_activeTileServer # serverName
    /\ Reloaded([Widget EXCEPT !.server = serverName, !.tiles = <<>>, !.positions = <<>>],
                "setTileServer")

RefreshMap ==
    Reloaded([Widget EXCEPT !.tiles = <<>>, !.positions = <<>>], "refresh")

\* variant: clearing the cache also forgets the requests in flight
ClearTileCache_DropsPending ==
    /\ events < MaxEvents
    /\ events' = events + 1
    /\ Install([Widget EXCEPT !.dir = clearTileCache(config.cacheEnabled, cacheDir),
                              !.pending = NoPending])
    /\ last' = [op |-> "clear", before |-> cacheDir]
    /\ UNCHANGED <<config, now, finished, cacheOps>>

ClearTileCache ==
    /\ events < MaxEvents
    /\ events' = events + 1
    /\ Install([Widget EXCEPT !.dir = clearTileCache(config.cacheEnabled, cacheDir)])
    /\ last' = [op |-> "clear", before |-> cacheDir]
    /\ UNCHANGED <<config, now, finished, cacheOps>>

\* a QTimer::singleShot(500) armed by loadTileMap fires
PrefetchTimer ==
    /\ prefetchTimers > 0
    /\ \E w \in {prefetchTiles([Widget EXCEPT !.timers = @ - 1], now, 1)} :
          /\ WithinBounds(w)
          /\ Install(w)
    /\ last' = [op |-> "prefetch"]
    /\ UNCHANGED <<config, now, events, finished, cacheOps>>

\* a reply of loadTileAsync finishes with one of the given outcomes
ReplyFinishedWith(outcomes) ==
    \E req \in BagToSet(replies), outcome \in outcomes, bytes \in TileBytes,
       io \in IoOutcomes :
        /\ (outcome # "image" \/ ~config.cacheEnabled) => (bytes = BytesPerMB /\ io = "ok")
        /\ \E w \in {onReplyFinished(Widget, now, req, outcome, bytes, io)} :
              /\ Install(w)
              /\ last' = [op |-> "reply", image |-> outcome = "image", req |-> req,
                          afterClear |-> last.op = "clear"]
        /\ finished < MaxFinished
        /\ finished' = finished + 1
        /\ UNCHANGED <<config, now, events, cacheOps>>

ReplyFinished == ReplyFinishedWith(ReplyOutcomes)

\* a reply of prefetchTiles finishes with one of the given outcomes
PrefetchFinishedWith(outcomes) ==
    \E req \in BagToSet(prefetchReplies), outcome \in outcomes, bytes \in TileBytes,
       io \in IoOutcomes :
        /\ (outcome # "image" \/ ~config.cacheEnabled) => (bytes = BytesPerMB /\ io = "ok")
        /\ \E w \in {onPrefetchFinished(Widget, now, req, outcome, bytes, io)} :
              /\ Install(w)
              /\ last' = [op |-> "prefetchReply", image |-> outcome = "image", req |-> req,
                          afterClear |-> last.op = "clear"]
        /\ finished < MaxFinished
        /\ finished' = finished + 1
        /\ UNCHANGED <<config, now, events, cacheOps>>

PrefetchFinished == PrefetchFinishedWith(ReplyOutcomes)

Tick ==
    \E d \in TickSteps :
        /\ now + d <= MaxNow
        /\ now' = now + d
        /\ last' = [op |-> "tick"]
        /\ Install(Widget)
        /\ UNCHANGED <<config, events, finished, cacheOps>>

Next ==
    \/ \E size \in ResizeSizes : ResizeEvent(size)
    \/ \E delta \in {-1, 1} : WheelEvent(delta)
    \/ MousePressEvent
    \/ \E offset \in DragOffsets : MouseMoveEvent(offset)
    \/ MouseReleaseEvent
    \/ \E serverName \in Servers : SetTileServer(serverName)
    \/ RefreshMap
    \/ ClearTileCache
    \/ PrefetchTimer
    \/ ReplyFinished
    \/ PrefetchFinished

Spec == Init /\ [][Next]_vars

-----------------------------------------------------------------------------
(* The cache functions called directly, on a clock that advances *)

CacheConfigs ==
    [minZoom : {0}, maxZoom : {1}, defaultZoom : {1}, tileSize : {512},
     cacheEnabled : {TRUE}, maxCacheSizeMB : {0, 1},
     defaultCenter : {<<286, 158>>}]

\* the cache directory found at start: missing, empty, or holding a file of an
\* earlier run whose bytes do not decode
CacheDirs ==
    {[exists |-> FALSE, files |-> NoFiles],
     [exists |-> TRUE, files |-> NoFiles],
     [exists |-> TRUE,
      files |-> [p \in {getTileCachePath(0, 0, 0, "openstreetmap")} |->
                    [mtime |-> 0, data |-> GarbageData]]]}

\* <<z, x, y>> of the tiles saved and looked up
CacheAddrs == {<<0, 0, 0>>, <<1, 0, 0>>, <<1, 1, 0>>, <<1, 1, 1>>}
CacheServers == {"openstreetmap"}
CacheTileBytes == {BytesPerMB \div 2, BytesPerMB}
CacheImages ==
    {ServerTile(TileUrl(s, a[1], a[2], a[3]), b) :
        s \in CacheServers, a \in {<<1, 0, 0>>}, b \in CacheTileBytes}

InitCache == InitWith(CacheConfigs, CacheDirs)

CacheSave(addr, serverName, tile, io) ==
    /\ cacheOps < MaxCacheOps
    /\ cacheOps' = cacheOps + 1
    /\ LET cachePath == getTileCachePath(addr[1], addr[2], addr[3], serverName)
           wrote == config.cacheEnabled /\ tile # NullPixmap /\ io = "ok"
       IN /\ Install([Widget EXCEPT !.dir =
                        saveTileToCache(config.cacheEnabled, config.maxCacheSizeMB,
                                        cacheDir, now, addr[1], addr[2], addr[3],
                                        serverName, tile, io)])
          /\ last' = [op |-> "save", path |-> cachePath, tile |-> tile, wrote |-> wrote,
                      written |-> IF wrote
                                  THEN WriteTileFile(cacheDir, now, cachePath, tile)
                                  ELSE cacheDir]
    /\ UNCHANGED <<config, now, events, finished>>

CacheLoad(addr, serverName) ==
    /\ cacheOps < MaxCacheOps
    /\ cacheOps' = cacheOps + 1
    /\ LET c == loadTileFromCache(config.cacheEnabled, cacheDir, now,
                                  addr[1], addr[2], addr[3], serverName)
       IN /\ Install([Widget EXCEPT !.dir = c.dir])
          /\ last' = [op |-> "load",
                      path |-> getTileCachePath(addr[1], addr[2], addr[3], serverName),
                      hit |-> c.hit, tile |-> c.tile, before |-> cacheDir]
    /\ UNCHANGED <<config, now, events, finished>>

NextCache ==
    \/ \E addr \in CacheAddrs, serverName \in CacheServers,
          tile \in CacheImages \cup {NullPixmap}, io \in IoOutcomes :
            CacheSave(addr, serverName, tile, io)
    \/ \E addr \in CacheAddrs, serverName \in CacheServers : CacheLoad(addr, serverName)
    \/ ClearTileCache
    \/ Tick

SpecCache == InitCache /\ [][NextCache]_vars

-----------------------------------------------------------------------------
(* The widget panned at a zoom where the drag crosses tiles, without a disk cache *)

PanConfigs ==
    [minZoom : {9}, maxZoom : {10}, defaultZoom : {9}, tileSize : {512},
     cacheEnabled : {FALSE}, maxCacheSizeMB : {1},
     defaultCenter : {<<286, 158>>}]

InitPan == InitWith(PanConfigs, {[exists |-> FALSE, files |-> NoFiles]})

NextPan ==
    \/ \E size \in ResizeSizes : ResizeEvent(size)
    \/ \E delta \in {-1, 1} : WheelEvent(delta)
    \/ MousePressEvent
    \/ \E offset \in DragOffsets : MouseMoveEvent(offset)
    \/ MouseReleaseEvent
    \/ PrefetchTimer
    \/ ReplyFinished

SpecPan == InitPan /\ [][NextPan]_vars

-----------------------------------------------------------------------------
(* prefetchTiles called directly with a radius, at a zoom where every ring   *)
(* tile is valid *)

PrefetchConfigs ==
    [minZoom : {9}, maxZoom : {9}, defaultZoom : {9}, tileSize : {512},
     cacheEnabled : {TRUE}, maxCacheSizeMB : {2},
     defaultCenter : {<<286, 158>>}]

InitPrefetch == InitWith(PrefetchConfigs, {[exists |-> FALSE, files |-> NoFiles]})

PrefetchCall(radius) ==
    /\ cacheOps < MaxPrefetchCalls
    /\ cacheOps' = cacheOps + 1
    /\ \E w \in {prefetchTiles(Widget, now, radius)} :
          /\ Install(w)
          /\ last' = [op |-> "prefetchCall", radius |-> radius,
                      requested |-> w.prefetch (-) prefetchReplies,
                      before |-> cacheDir]
    /\ UNCHANGED <<config, now, events, finished>>

NextPrefetch ==
    \/ \E radius \in 0 .. MaxRadius : PrefetchCall(radius)
    \/ PrefetchFinished

SpecPrefetch == InitPrefetch /\ [][NextPrefetch]_vars

-----------------------------------------------------------------------------
(* The widget zoomed by the wheel, the configured default zoom inside or     *)
(* outside the configured range, without a disk cache *)

ZoomConfigs ==
    [minZoom : {0}, maxZoom : {1}, defaultZoom : {1, 3}, tileSize : {512},
     cacheEnabled : {FALSE}, maxCacheSizeMB : {1},
     defaultCenter : {<<286, 158>>}]

InitZoom == InitWith(ZoomConfigs, {[exists |-> FALSE, files |-> NoFiles]})

NextZoom ==
    \/ \E delta \in {-1, 1} : WheelEvent(delta)
    \/ \E size \in ResizeSizes : ResizeEvent(size)
    \/ PrefetchTimer
    \/ ReplyFinished

SpecZoom == InitZoom /\ [][NextZoom]_vars

-----------------------------------------------------------------------------
(* getTileCachePath called on every address up to a zoom *)

PathInputs ==
    {<<s, z, x, y>> : s \in Servers, z \in 0 .. MaxPathZoom,
                      x \in 0 .. 2 ^ MaxPathZoom - 1, y \in 0 .. 2 ^ MaxPathZoom - 1}

PathCall(serverName, z, x, y) ==
    /\ x < 2 ^ z
    /\ y < 2 ^ z
    /\ last' = [op |-> "path", server |-> serverName, z |-> z, x |-> x, y |-> y,
                path |-> getTileCachePath(z, x, y, serverName),
                text |-> CachePathText(CacheDirectoryName, z, x, y, serverName)]
    /\ Install(Widget)
    /\ UNCHANGED <<config, now, events, finished, cacheOps>>

NextPath == \E i \in PathInputs : PathCall(i[1], i[2], i[3], i[4])

SpecPath == Init /\ [][NextPath]_vars

-----------------------------------------------------------------------------
(* A widget resized to sizes up to and beyond those at which the grid extents are capped *)

GridConfigs ==
    [minZoom : {9}, maxZoom : {9}, defaultZoom : {9}, tileSize : {256, 512},
     cacheEnabled : {FALSE}, maxCacheSizeMB : {1}, defaultCenter : {<<286, 158>>}]

\* widget sizes in steps of 256 pixels
GridSizes == {<<256 * i, 256 * j>> : i \in 1 .. MaxGridWidth, j \in 1 .. MaxGridHeight}

InitGrid == InitWith(GridConfigs, {[exists |-> FALSE, files |-> NoFiles]})

NextGrid == \E size \in GridSizes : ResizeEvent(size)

SpecGrid == InitGrid /\ [][NextGrid]_vars

-----------------------------------------------------------------------------
(* The widget started at zoom 0, where the grid is the single tile of the    *)
(* world and every outstanding reply can finish *)

FetchConfigs ==
    [minZoom : {0}, maxZoom : {1}, defaultZoom : {0}, tileSize : {512},
     cacheEnabled : {TRUE}, maxCacheSizeMB : {2}, defaultCenter : {<<286, 158>>}]

InitFetch == InitWith(FetchConfigs, {[exists |-> FALSE, files |-> NoFiles]})

NextFetch ==
    \/ \E delta \in {-1, 1} : WheelEvent(delta)
    \/ \E serverName \in Servers : SetTileServer(serverName)
    \/ RefreshMap
    \/ PrefetchTimer
    \/ ReplyFinished

SpecFetch == InitFetch /\ [][NextFetch]_vars

-----------------------------------------------------------------------------
(* The widget dragged across tiles at zoom 9 over a cache that holds all but *)
(* a few tiles of the neighbourhood, every reply bringing an image *)

SettleConfigs ==
    [minZoom : {9}, maxZoom : {9}, defaultZoom : {9}, tileSize : {512},
     cacheEnabled : {TRUE}, maxCacheSizeMB : {2}, defaultCenter : {<<286, 158>>}]

\* the tiles around the centre tiles the drag can reach, (405..409, 223..225)
SettleTiles ==
    {<<x, y>> : x \in TileIndex(HanoiMinX, 9) .. TileIndex(HanoiMaxX, 9) + 1,
                y \in TileIndex(HanoiMinY, 9) - 1 .. TileIndex(HanoiMinY, 9) + 1}

\* the tiles the cache may lack
SettleMissing == {<<407, 224>>, <<406, 224>>, <<409, 225>>}

\* a cache written at time 0 that holds the images of all tiles but those of S
SettleDir(S) ==
    [exists |-> TRUE,
     files |-> [p \in {getTileCachePath(9, t[1], t[2], "openstreetmap") :
                          t \in SettleTiles \ S} |->
                  [mtime |-> 0,
                   data |-> EncodePng(ServerTile(TileUrl(p[1], p[2], p[3], p[4]),
                                                 BytesPerMB \div 16))]]]

SettleDirs == {SettleDir(S) : S \in (SUBSET SettleMissing) \ {{}}}

InitSettle == InitWith(SettleConfigs, SettleDirs)

NextSettle ==
    \/ MousePressEvent
    \/ \E offset \in DragOffsets : MouseMoveEvent(offset)
    \/ MouseReleaseEvent
    \/ PrefetchTimer
    \/ ReplyFinishedWith({"image"})
    \/ PrefetchFinishedWith({"image"})

SpecSettle == InitSettle /\ [][NextSettle]_vars

-----------------------------------------------------------------------------
(* The widget centred in the north-western quarter of the world (New York,   *)
(* longitude -74, so x = 106, projected ordinate 135), zoomed by the wheel    *)
(* between zoom 0 and zoom 2, without a disk cache *)

WestConfigs ==
    [minZoom : {0}, maxZoom : {2}, defaultZoom : {0, 1}, tileSize : {512},
     cacheEnabled : {FALSE}, maxCacheSizeMB : {1}, defaultCenter : {<<106, 135>>}]

InitWest == InitWith(WestConfigs, {[exists |-> FALSE, files |-> NoFiles]})

NextWest ==
    \/ \E delta \in {-1, 1} : WheelEvent(delta)
    \/ \E size \in ResizeSizes : ResizeEvent(size)
    \/ PrefetchTimer
    \/ ReplyFinished

SpecWest == InitWest /\ [][NextWest]_vars

-----------------------------------------------------------------------------
(* The widget's ViewTransform, reached through MapWidget::viewTransform(), *)
(* called by a client while the widget is resized and zoomed               *)

ViewConfigs ==
    [minZoom : {2}, maxZoom : {4}, defaultZoom : {2, 3, 4}, tileSize : {512},
     cacheEnabled : {FALSE}, maxCacheSizeMB : {1}, defaultCenter : {<<286, 158>>}]

\* arguments of setZoom: the ends of int, values around both limits and between them
ZoomArguments == {-2147483647 - 1, -1, 0, 2, 3, 4, 12, 17, 18, 19, 2147483647}

InitView == InitWith(ViewConfigs, {[exists |-> FALSE, files |-> NoFiles]})

\* a call of one of the zoom functions of the ViewTransform; zoom is the
\* argument setZoom receives
ViewCall(op, zoom, result) ==
    /\ Install([Widget EXCEPT !.vt = result.vt])
    /\ last' = [op |-> op, zoom |-> zoom, emitted |-> result.emitted]
    /\ UNCHANGED <<config, now, events, finished, cacheOps>>

SetZoom(zoom) == ViewCall("setZoom", zoom, setZoom(viewTransform, zoom))

ZoomIn == ViewCall("zoomIn", viewTransform.m_zoom + 1, zoomIn(viewTransform))

ZoomOut == ViewCall("zoomOut", viewTransform.m_zoom - 1, zoomOut(viewTransform))

NextView ==
    \/ \E zoom \in ZoomArguments : SetZoom(zoom)
    \/ ZoomIn
    \/ ZoomOut
    \/ \E size \in ResizeSizes : ResizeEvent(size)
    \/ \E delta \in {-1, 1} : WheelEvent(delta)

SpecView == InitView /\ [][NextView]_vars

-----------------------------------------------------------------------------
(* Properties *)

\* the URLs of the interactive requests in flight
UrlsInFlight == {r.url : r \in BagToSet(replies)}

\* C1: interactive fetch deduplication.  A loadTileAsync call for a URL whose
\* earlier request has not finished dispatches no request, so that at most one
\* loadTileAsync request per URL is in flight at any time, whatever pans,
\* zooms, resizes and refreshes are interleaved with the replies.
C1_AtMostOneInFlightPerUrl ==
    /\ \A r \in BagToSet(replies) : CopiesIn(r, replies) = 1
    /\ \A r1, r2 \in BagToSet(replies) : r1.url = r2.url => r1 = r2
    /\ DOMAIN m_pendingTiles = UrlsInFlight
    /\ \A r \in BagToSet(replies) :
          r.url = TileUrl(m_activeTileServer, r.z, r.x, r.y)
             => loadTileAsync(Widget, r.z, r.x, r.y, r.offsetX, r.offsetY) = Widget

\* a refresh has recomputed the grid while every request of the construction
\* was still in flight and nothing had been cached: each tile was asked again
C1_Witness ==
    /\ last.op = "refresh"
    /\ last.recomputed
    /\ events = 1
    /\ finished = 0
    /\ BagCardinality(replies) > 1
    /\ cacheDir.files = NoFiles

\* (z, x, y) is an address of the current grid
InCurrentGrid(z, x, y) ==
    /\ z = m_zoom
    /\ \E i \in 1 .. Len(m_tilePositions) :
          /\ x = m_centerTileX + m_tilePositions[i][1]
          /\ y = m_centerTileY + m_tilePositions[i][2]

\* C2: stale delivery.  When the reply of an interactive fetch for an address
\* that is not an address of the current grid is delivered, m_tiles and
\* m_tilePositions are left unchanged.
C2_StaleDeliveryAddsNothing ==
    [][\A req \in BagToSet(replies) :
          (/\ replies' = replies (-) SetToBag({req})
           /\ ~InCurrentGrid(req.z, req.x, req.y))
             => (m_tiles' = m_tiles /\ m_tilePositions' = m_tilePositions)]_vars

\* the steps that end in loadTileMap
ReloadOps == {"construct", "resize", "wheel", "move", "release", "setTileServer", "refresh"}

\* C3: no blank cells.  Immediately after a grid recompute, before any reply is
\* processed, the tile set holds an entry, a cached image or a placeholder, for
\* every offset of the grid range whose tile coordinates lie in [0, 2^zoom).
C3_NoBlankCells ==
    (last.op \in ReloadOps /\ last.recomputed) =>
        /\ Len(m_tiles) = Len(m_tilePositions)
        /\ \A dx \in -GridHalfX(widgetSize, config.tileSize) .. GridHalfX(widgetSize, config.tileSize),
              dy \in -GridHalfY(widgetSize, config.tileSize) .. GridHalfY(widgetSize, config.tileSize) :
              (/\ 0 <= m_centerTileX + dx /\ m_centerTileX + dx < 2 ^ m_zoom
               /\ 0 <= m_centerTileY + dy /\ m_centerTileY + dy < 2 ^ m_zoom)
                 => \E i \in 1 .. Len(m_tilePositions) :
                       /\ m_tilePositions[i] = <<dx, dy>>
                       /\ m_tiles[i].kind \in {"real", "fallback"}

\* a refresh has recomputed a grid that has a cached image and a placeholder
C3_Witness ==
    /\ last.op = "refresh"
    /\ last.recomputed
    /\ \E i \in 1 .. Len(m_tiles) : m_tiles[i].kind = "real"
    /\ \E i \in 1 .. Len(m_tiles) : m_tiles[i].kind = "fallback"

\* C4: no cross-contamination between tile servers.  Every file of the cache
\* under the path of server S holds an image downloaded from the URL of S.
C4_NoCrossContamination ==
    \A p \in DOMAIN cacheDir.files :
        DecodeImage(cacheDir.files[p].data) # NullPixmap
           => DecodeImage(cacheDir.files[p].data).url.host = getTileServerHost(p[1])

\* C5: size budget.  With the cache enabled and maxCacheSizeMB >= 0, after a
\* successful saveTileToCache the total size of the cache files is at most
\* maxCacheSizeMB * 1024 * 1024 bytes.
C5_SizeBudget ==
    (/\ config.cacheEnabled
     /\ config.maxCacheSizeMB >= 0
     /\ last.op = "save"
     /\ last.wrote)
       => getCacheSizeBytes(config.cacheEnabled, cacheDir)
             <= config.maxCacheSizeMB * 1024 * 1024

\* a save has taken the cache over a budget of 1 MB and files are left
C5_Witness ==
    /\ last.op = "save"
    /\ last.wrote
    /\ config.maxCacheSizeMB = 1
    /\ getCacheSizeBytes(config.cacheEnabled, last.written) > 1024 * 1024
    /\ cacheDir.files # NoFiles

\* the files ensureCacheSize has deleted and kept in the last save
DeletedBySave == DOMAIN last.written.files \ DOMAIN cacheDir.files
RetainedBySave == DOMAIN last.written.files \cap DOMAIN cacheDir.files

C7_StaleNeverServed ==
    (/\ last.op = "load"
     /\ last.path \in DOMAIN last.before.files
     /\ now - last.before.files[last.path].mtime > StaleDays * TicksPerDay)
       => (~last.hit /\ last.path \notin DOMAIN cacheDir.files)

C9_ClearEmptiesCache ==
    (config.cacheEnabled /\ last.op = "clear") =>
        /\ getCacheSizeBytes(config.cacheEnabled, cacheDir) = 0
        /\ \A p \in DOMAIN last.before.files :
              ~loadTileFromCache(config.cacheEnabled, cacheDir, now,
                                 p[2], p[3], p[4], p[1]).hit
        /\ last.before.exists => cacheDir.exists
        /\ \A addr \in CacheAddrs, serverName \in CacheServers, tile \in CacheImages :
              LET written == WriteTileFile(cacheDir, now,
                                 getTileCachePath(addr[1], addr[2], addr[3], serverName),
                                 tile)
                  saved == saveTileToCache(config.cacheEnabled, config.maxCacheSizeMB,
                                           cacheDir, now, addr[1], addr[2], addr[3],
                                           serverName, tile, "ok")
              IN /\ saved.exists
                 /\ tile.bytes <= config.maxCacheSizeMB * 1024 * 1024 => saved = written

\* a cache that held files has been cleared
C9_Witness ==
    /\ last.op = "clear"
    /\ last.before.files # NoFiles
    /\ config.cacheEnabled

\* C10: fallback tiles are never persisted.  An interactive fetch that ends with
\* undecodable bytes or a network error writes no file, and every file the
\* fetch paths write holds a decoded server image.
C10_FallbackNeverPersisted ==
    /\ \A p \in DOMAIN cacheDir.files :
          /\ DecodeImage(cacheDir.files[p].data) # NullPixmap
          /\ DecodeImage(cacheDir.files[p].data).kind = "real"
    /\ \A req \in BagToSet(replies), outcome \in {"undecodable", "error"} :
          onReplyFinished(Widget, now, req, outcome, BytesPerMB, "ok").dir = cacheDir
    /\ \A req \in BagToSet(prefetchReplies), outcome \in {"undecodable", "error"} :
          onPrefetchFinished(Widget, now, req, outcome, BytesPerMB, "ok").dir = cacheDir

\* a fetch has failed, its placeholder is in the tile set, and the cache holds
\* the image of an earlier fetch
C10_Witness ==
    /\ last.op = "reply"
    /\ ~last.image
    /\ cacheDir.files # NoFiles
    /\ m_tiles # <<>>
    /\ m_tiles[Len(m_tiles)].kind = "fallback"

\* C11: a cache write failure is non-fatal.  When an interactive fetch brings a
\* decodable image, the image is handed to onTileLoaded and placed in the tile
\* set under the same conditions whether saveTileToCache writes the file, fails
\* to create the directory or to write, or does nothing.
C11_WriteFailureNonFatal ==
    \A req \in BagToSet(replies), bytes \in TileBytes, io \in IoOutcomes :
        LET done == onReplyFinished(Widget, now, req, "image", bytes, io)
            rest == [Widget EXCEPT
                       !.pending = [u \in DOMAIN m_pendingTiles \ {req.url} |->
                                       m_pendingTiles[u]],
                       !.replies = @ (-) SetToBag({req})]
            handed == onTileLoaded(rest, req.z, req.x, req.y, req.offsetX, req.offsetY,
                                   ServerTile(req.url, bytes))
        IN /\ done.tiles = handed.tiles
           /\ done.positions = handed.positions
           /\ done.pending = handed.pending
           /\ done.replies = handed.replies

\* the first reply brought an image whose cache write failed, and the image is
\* the last tile of the tile set
C11_Witness ==
    /\ last.op = "reply"
    /\ last.image
    /\ finished = 1
    /\ config.cacheEnabled
    /\ cacheDir.files = NoFiles
    /\ m_tiles # <<>>
    /\ m_tiles[Len(m_tiles)].kind = "real"

\* C12: self-healing on corruption.  loadTileFromCache on an address whose file
\* exists and is fresh but does not decode is a miss and deletes the file, so
\* that the next lookup of the address finds no file and misses again.
C12_CorruptFileRemoved ==
    (/\ last.op = "load"
     /\ last.path \in DOMAIN last.before.files
     /\ ~(daysTo(last.before.files[last.path].mtime, now) > StaleDays)
     /\ DecodeImage(last.before.files[last.path].data) = NullPixmap)
       => /\ ~last.hit
          /\ last.tile = NullPixmap
          /\ last.path \notin DOMAIN cacheDir.files
          /\ \A p \in DOMAIN last.before.files \ {last.path} :
                p \in DOMAIN cacheDir.files /\ cacheDir.files[p] = last.before.files[p]
          /\ LET again == loadTileFromCache(config.cacheEnabled, cacheDir, now,
                                            last.path[2], last.path[3], last.path[4],
                                            last.path[1])
             IN ~again.hit /\ again.dir = cacheDir

\* a fresh file that does not decode has been looked up, next to a good file
C12_Witness ==
    /\ last.op = "load"
    /\ last.path \in DOMAIN last.before.files
    /\ ~(daysTo(last.before.files[last.path].mtime, now) > StaleDays)
    /\ last.before.files[last.path].data = GarbageData
    /\ cacheDir.files # NoFiles

\* C13: prefetch request set.  One call of prefetchTiles(radius), radius >= 0,
\* issues at most 25 requests; each requested address lies on a ring r in
\* 1 .. radius around the centre tile (max(|dx|, |dy|) = r, never the centre),
\* was not cached, and no address is requested twice in the call.
C13_PrefetchRequestSet ==
    last.op = "prefetchCall" =>
        /\ BagCardinality(last.requested) <= 25
        /\ \A r \in BagToSet(last.requested) :
              /\ CopiesIn(r, last.requested) = 1
              /\ \E ring \in 1 .. last.radius :
                    Max(Abs(r.tileX - m_centerTileX), Abs(r.tileY - m_centerTileY)) = ring
              /\ ~loadTileFromCache(config.cacheEnabled, last.before, now, m_zoom,
                                    r.tileX, r.tileY, m_activeTileServer).hit
              /\ r.url = TileUrl(m_activeTileServer, m_zoom, r.tileX, r.tileY)
        /\ \A r1, r2 \in BagToSet(last.requested) :
              (r1.tileX = r2.tileX /\ r1.tileY = r2.tileY) => r1 = r2

\* a call with radius 3 has stopped at 25 requests, having passed over a tile
\* of the first ring that was cached
C13_Witness ==
    /\ last.op = "prefetchCall"
    /\ last.radius = 3
    /\ BagCardinality(last.requested) = 25
    /\ \E p \in DOMAIN last.before.files :
          /\ p[2] = m_zoom
          /\ Max(Abs(p[3] - m_centerTileX), Abs(p[4] - m_centerTileY)) = 1

\* C14: prefetch does not touch the viewport.  Neither the dispatch of prefetch
\* requests nor the completion of one (image, undecodable data or error)
\* changes m_tiles, m_tilePositions or m_pendingTiles; a completion only takes
\* its request out of flight: no fallback tile, no new request.
C14_PrefetchLeavesViewport ==
    [][(last'.op \in {"prefetch", "prefetchReply"}) =>
          /\ m_tiles' = m_tiles
          /\ m_tilePositions' = m_tilePositions
          /\ m_pendingTiles' = m_pendingTiles
          /\ replies' = replies
          /\ last'.op = "prefetchReply" =>
                \E r \in BagToSet(prefetchReplies) :
                    prefetchReplies' = prefetchReplies (-) SetToBag({r})]_vars

\* a prefetch request has failed while the grid had tiles and fetches pending
C14_Witness ==
    /\ last.op = "prefetchReply"
    /\ ~last.image
    /\ m_tiles # <<>>
    /\ DOMAIN m_pendingTiles # {}

\* C15: prefetch targets lie outside the viewport.  Every address for which
\* prefetchTiles issues a request is outside the current tile grid: it is not
\* an address the grid holds a tile for, nor one pending in m_pendingTiles.
C15_PrefetchOutsideViewport ==
    [][last'.op = "prefetch" =>
          \A r \in BagToSet(prefetchReplies' (-) prefetchReplies) :
              /\ ~InCurrentGrid(m_zoom, r.tileX, r.tileY)
              /\ r.url \notin DOMAIN m_pendingTiles]_vars

\* x and y lie in [0, 2^z)
InWorld(z, x, y) == 0 <= x /\ x < 2 ^ z /\ 0 <= y /\ y < 2 ^ z

\* C16: invalid tile addresses are filtered.  Neither loadTileMap nor
\* prefetchTiles places a tile or issues a request for a tile whose x or y is
\* outside [0, 2^zoom): every request in flight, every placeholder and every
\* cell of a recomputed grid (the cells being the tiles looked up) is in range.
C16_InvalidTilesFiltered ==
    /\ \A r \in BagToSet(replies) :
          InWorld(r.z, r.x, r.y) /\ r.url.z = r.z /\ r.url.x = r.x /\ r.url.y = r.y
    /\ \A r \in BagToSet(prefetchReplies) :
          InWorld(r.url.z, r.tileX, r.tileY) /\ r.url.x = r.tileX /\ r.url.y = r.tileY
    /\ \A i \in 1 .. Len(m_tiles) :
          m_tiles[i].kind = "fallback" => InWorld(m_tiles[i].z, m_tiles[i].x, m_tiles[i].y)
    /\ (last.op \in ReloadOps /\ last.recomputed) =>
          \A i \in 1 .. Len(m_tilePositions) :
              InWorld(m_zoom, m_centerTileX + m_tilePositions[i][1],
                      m_centerTileY + m_tilePositions[i][2])

\* the grid and the ring both reach beyond the edge of the world: the grid of
\* the construction has fewer cells than offsets, and the prefetch that
\* followed has issued fewer than eight requests
C16_Witness ==
    /\ last.op = "prefetch"
    /\ events = 0
    /\ finished = 0
    /\ Len(m_tilePositions) > 0
    /\ Len(m_tilePositions) <
          (2 * GridHalfX(widgetSize, config.tileSize) + 1)
             * (2 * GridHalfY(widgetSize, config.tileSize) + 1)
    /\ BagCardinality(prefetchReplies) \in 1 .. 7

\* C17: zoom bounds.  For any configured minZoom <= maxZoom and default zoom, a
\* wheel event changes the zoom by at most one level, the zoom it leaves after
\* a change lies in [minZoom, maxZoom], and a wheel event that leaves the zoom
\* as it was changes nothing (no grid reload).
C17_WheelKeepsZoomInBounds ==
    [][(last'.op \in {"wheel", "wheelIgnored"}) =>
          /\ m_zoom' - m_zoom \in {-1, 0, 1}
          /\ m_zoom' # m_zoom =>
                (config.minZoom <= m_zoom' /\ m_zoom' <= config.maxZoom)
          /\ m_zoom' = m_zoom =>
                UNCHANGED <<m_centerGeo, m_centerTileX, m_centerTileY, m_tiles,
                            m_tilePositions, m_pendingTiles, replies,
                            prefetchReplies, prefetchTimers, cacheDir>>]_vars

\* C18: cache path.  getTileCachePath is deterministic and injective over
\* (server, zoom, x, y) with 0 <= x, y < 2^zoom: the same inputs give the same
\* path, two different addresses never give the same path, and the path reads
\* cacheDirectory/server/zoom/x/y.png.
C18_CachePathInjective ==
    last.op = "path" =>
        /\ last.text = CachePathText(CacheDirectoryName, last.z, last.x, last.y,
                                     last.server)
        /\ last.text = <<CacheDirectoryName, "/", last.server, "/">>
                          \o NumberText(last.z) \o <<"/">> \o NumberText(last.x)
                          \o <<"/">> \o NumberText(last.y) \o <<".png">>
        /\ \A i \in PathInputs :
              (i[3] < 2 ^ i[2] /\ i[4] < 2 ^ i[2]
                 /\ i # <<last.server, last.z, last.x, last.y>>)
                 => /\ CachePathText(CacheDirectoryName, i[2], i[3], i[4], i[1]) # last.text
                    /\ getTileCachePath(i[2], i[3], i[4], i[1]) # last.path

\* the path of an address whose digits run together with those of another
\* address when read without the slashes (4/1/11 and 4/11/1)
C18_Witness ==
    /\ last.op = "path"
    /\ last.z = 4
    /\ last.x = 1
    /\ last.y = 11

\* C20: fan-out cap.  For every widget size and tile size, one grid recompute by
\* loadTileMap produces a grid of at most 8 tile columns and at most 6 tile
\* rows, hence places at most 48 tiles and dispatches at most 48 fetches.
C20_FanOutCap ==
    [][(last'.op = "resize" /\ last'.recomputed) =>
          /\ Cardinality({m_tilePositions'[i][1] : i \in DOMAIN m_tilePositions'})
                <= MaxTilesX
          /\ Cardinality({m_tilePositions'[i][2] : i \in DOMAIN m_tilePositions'})
                <= MaxTilesY
          /\ Len(m_tiles') <= MaxTilesX * MaxTilesY
          /\ BagCardinality(replies' (-) replies) <= MaxTilesX * MaxTilesY]_vars

\* C21: pending-set lifecycle.  m_pendingTiles contains a URL exactly while a
\* loadTileAsync request for that URL is in flight: the entry is inserted when
\* the request is dispatched and removed when the reply finishes, whatever the
\* outcome; once every outstanding reply has finished, m_pendingTiles is empty.
C21_PendingWhileInFlight ==
    /\ DOMAIN m_pendingTiles = UrlsInFlight
    /\ \A u \in DOMAIN m_pendingTiles :
          \E r \in BagToSet(replies) :
             /\ r.url = u
             /\ m_pendingTiles[u] = <<r.x, r.y, r.offsetX, r.offsetY>>
    /\ (replies = EmptyBag) => (m_pendingTiles = NoPending)

\* two replies have finished, the last one without an image, and nothing is
\* outstanding any more
C21_Witness ==
    /\ last.op = "reply"
    /\ ~last.image
    /\ finished = 2
    /\ replies = EmptyBag
    /\ m_pendingTiles = NoPending

\* the offsets present in m_tilePositions
OffsetsPresent == {m_tilePositions[i] : i \in DOMAIN m_tilePositions}

\* C22: delivery check at delivery time.  onTileLoaded adds the image to the
\* tile set only if the reply's zoom equals the current zoom and the offset
\* recorded for the request is present in m_tilePositions at the moment of
\* delivery; otherwise the image is discarded and m_tiles and m_tilePositions
\* are unchanged.
C22_DeliveryCheckedAtDelivery ==
    [][last'.op = "reply" =>
          IF /\ last'.req.z = m_zoom
             /\ <<last'.req.offsetX, last'.req.offsetY>> \in OffsetsPresent
          THEN /\ Len(m_tiles') = Len(m_tiles) + 1
               /\ SubSeq(m_tiles', 1, Len(m_tiles)) = m_tiles
               /\ m_tilePositions' =
                     Append(m_tilePositions, <<last'.req.offsetX, last'.req.offsetY>>)
          ELSE /\ m_tiles' = m_tiles
               /\ m_tilePositions' = m_tilePositions]_vars

\* a reply for the current zoom has finished whose offset, in the grid when
\* the request was sent, is in the grid no more
C22_Witness ==
    /\ last.op = "reply"
    /\ last.req.z = m_zoom
    /\ <<last.req.offsetX, last.req.offsetY>> \notin OffsetsPresent

\* C23: no automatic retry.  After an interactive fetch fails (network error
\* or undecodable data) no new request for that address is dispatched until a
\* later grid recompute; the next grid recompute whose grid still contains the
\* address misses the cache and dispatches a fresh request for it.  Stated on
\* the step that follows the failed reply.
C23_NoAutomaticRetry ==
    [][(last.op = "reply" /\ ~last.image) =>
          IF last'.op \in ReloadOps /\ last'.recomputed
          THEN (/\ last.req.url = TileUrl(m_activeTileServer', m_zoom',
                                          last.req.x, last.req.y)
                /\ \E i \in DOMAIN m_tilePositions' :
                      /\ last.req.x = m_centerTileX' + m_tilePositions'[i][1]
                      /\ last.req.y = m_centerTileY' + m_tilePositions'[i][2])
                  => /\ getTileCachePath(last.req.z, last.req.x, last.req.y,
                                         m_activeTileServer') \notin DOMAIN cacheDir.files
                     /\ \E r \in BagToSet(replies' (-) replies) : r.url = last.req.url
          ELSE /\ \A r \in BagToSet(replies' (-) replies) : r.url # last.req.url
               /\ \A r \in BagToSet(prefetchReplies' (-) prefetchReplies) :
                     r.url # last.req.url]_vars

\* the tile drawn last, hence on top, at the offset
ShownAt(offset) ==
    m_tiles[CHOOSE i \in DOMAIN m_tilePositions :
               /\ m_tilePositions[i] = offset
               /\ \A j \in DOMAIN m_tilePositions : m_tilePositions[j] = offset => j <= i]

\* C24: a duplicate miss is satisfied by the outstanding request.  If a grid
\* recompute misses address A while a request for A is already pending, then
\* once the viewport stops changing and every outstanding fetch has succeeded
\* with a decodable image, every cell of the current grid shows the real image
\* of its own address, not a placeholder and not the image of another address.
\* Stated on every state in which no fetch is outstanding, all fetches having
\* brought an image.
C24_DuplicateMissSatisfied ==
    (replies = EmptyBag /\ prefetchReplies = EmptyBag) =>
        \A offset \in OffsetsPresent :
            /\ ShownAt(offset).kind = "real"
            /\ ShownAt(offset).url = TileUrl(m_activeTileServer, m_zoom,
                                             m_centerTileX + offset[1],
                                             m_centerTileY + offset[2])

\* C25: the tile set is a mapping from grid offset to image.  In every
\* reachable state m_tilePositions contains each offset at most once, so an
\* asynchronous delivery does not add a second entry for an offset, and the
\* size of the tile set never exceeds the number of cells of the grid.
C25_TileSetIsMapping ==
    /\ \A i, j \in DOMAIN m_tilePositions :
          m_tilePositions[i] = m_tilePositions[j] => i = j
    /\ Len(m_tiles) <= (2 * GridHalfX(widgetSize, config.tileSize) + 1)
                          * (2 * GridHalfY(widgetSize, config.tileSize) + 1)

\* C26: grid retention.  The grid is replaced wholesale only when the centre
\* tile index changes by at least 1 on some axis, or on an explicit resize,
\* server switch or refresh; a pan that leaves the centre tile index unchanged
\* leaves m_tiles and m_tilePositions unchanged and dispatches no fetch.
C26_GridRetainedOnSubTilePan ==
    [][(/\ last'.op = "move"
        /\ m_centerGeo' # m_centerGeo
        /\ m_tiles # <<>>
        /\ Abs(TileIndex(m_centerGeo'[1], m_zoom') - m_centerTileX) < 1
        /\ Abs(TileIndex(m_centerGeo'[2], m_zoom') - m_centerTileY) < 1)
          => /\ m_tiles' = m_tiles
             /\ m_tilePositions' = m_tilePositions
             /\ replies' = replies]_vars

\* C27: clear while fetches are in flight.  clearTileCache called while
\* interactive or prefetch requests are outstanding leaves m_pendingTiles,
\* m_tiles and m_tilePositions unchanged; every outstanding request still
\* completes and is delivered as usual, and its cache write either lands in the
\* recreated cache tree or is lost, never leaving the store or the pending set
\* in an error state.
C27_ClearWhileInFlight ==
    [][/\ last'.op = "clear" =>
             /\ m_pendingTiles' = m_pendingTiles
             /\ m_tiles' = m_tiles
             /\ m_tilePositions' = m_tilePositions
             /\ replies' = replies
             /\ prefetchReplies' = prefetchReplies
             /\ cacheDir'.files = NoFiles
       /\ (last.op = "clear" /\ last'.op = "reply") =>
             /\ replies' = replies (-) SetToBag({last'.req})
             /\ DOMAIN m_pendingTiles' = DOMAIN m_pendingTiles \ {last'.req.url}
             /\ DOMAIN m_pendingTiles' = {r.url : r \in BagToSet(replies')}
             /\ IF /\ last'.req.z = m_zoom
                   /\ <<last'.req.offsetX, last'.req.offsetY>> \in OffsetsPresent
                THEN /\ Len(m_tiles') = Len(m_tiles) + 1
                     /\ m_tiles'[Len(m_tiles')].kind =
                           IF last'.image THEN "real" ELSE "fallback"
                ELSE m_tiles' = m_tiles
             /\ cacheDir'.files # NoFiles =>
                   /\ last'.image
                   /\ cacheDir'.exists
                   /\ DOMAIN cacheDir'.files =
                         {getTileCachePath(last'.req.z, last'.req.x, last'.req.y,
                                           m_activeTileServer)}
       /\ (last.op = "clear" /\ last'.op = "prefetchReply") =>
             /\ prefetchReplies' = prefetchReplies (-) SetToBag({last'.req})
             /\ m_pendingTiles' = m_pendingTiles
             /\ m_tiles' = m_tiles
             /\ m_tilePositions' = m_tilePositions
             /\ cacheDir'.files # NoFiles =>
                   /\ last'.image
                   /\ cacheDir'.exists
                   /\ DOMAIN cacheDir'.files =
                         {getTileCachePath(m_zoom, last'.req.tileX, last'.req.tileY,
                                           m_activeTileServer)}]_vars

\* the cache was cleared with requests of both kinds in flight; the next
\* thing to happen was a reply with an image, which was delivered and whose
\* file is in the cache tree
C27_Witness ==
    /\ last.op = "reply"
    /\ last.afterClear
    /\ last.image
    /\ m_tiles[Len(m_tiles)].kind = "real"
    /\ cacheDir.exists
    /\ cacheDir.files # NoFiles
    /\ replies # EmptyBag
    /\ prefetchReplies # EmptyBag

\* C28: prefetch writes to the requested address.  An image obtained by a
\* prefetch request for address (server, zoom, x, y) is saved in the cache
\* under the path of exactly that address, whatever zoom changes and server
\* switches happen between the request and its reply.
C28_PrefetchWritesRequestedAddress ==
    [][(last'.op = "prefetchReply" /\ last'.image) =>
          \A p \in DOMAIN cacheDir'.files :
              (p \notin DOMAIN cacheDir.files \/ cacheDir'.files[p] # cacheDir.files[p])
                 => /\ getTileServerHost(p[1]) = last'.req.url.host
                    /\ p[2] = last'.req.url.z
                    /\ p[3] = last'.req.url.x
                    /\ p[4] = last'.req.url.y]_vars

\* the zoom a tile was loaded, fetched or drawn for
TileZoom(tile) == IF tile.kind = "real" THEN tile.url.z ELSE tile.z

\* C29: zoom consistency of the tile set.  In every reachable state, every
\* image in the tile set was loaded or fetched for the current zoom level: for
\* every centre position, after a wheel event changes the zoom the grid is
\* recomputed for the new zoom, and replies of requests made at another zoom
\* are never inserted.
C29_TilesOfCurrentZoom ==
    \A i \in DOMAIN m_tiles : TileZoom(m_tiles[i]) = m_zoom

ViewOps == {"setZoom", "zoomIn", "zoomOut"}

\* C30: ViewTransform zoom clamp.  After a call of setZoom, zoomIn or zoomOut,
\* whatever the integer argument, the zoom of the ViewTransform lies in
\* [MIN_ZOOM, MAX_ZOOM] = [3, 18]; a call whose clamped value equals the current
\* zoom (zoomIn at 18, zoomOut at 3, setZoom of an out-of-range value at the
\* bound) changes no state and emits neither zoomChanged nor transformChanged.
C30_ViewTransformZoomClamp ==
    [][ last'.op \in ViewOps =>
          /\ MIN_ZOOM = 3 /\ MAX_ZOOM = 18
          /\ viewTransform'.m_zoom \in MIN_ZOOM .. MAX_ZOOM
          /\ qBound(MIN_ZOOM, last'.zoom, MAX_ZOOM) = viewTransform.m_zoom =>
                /\ viewTransform' = viewTransform
                /\ last'.emitted = <<>>
                /\ UNCHANGED <<m_zoom, m_centerGeo, m_centerTileX, m_centerTileY,
                               m_dragging, m_dragStartGeo, m_activeTileServer, m_tiles,
                               m_tilePositions, m_pendingTiles, replies, prefetchReplies,
                               prefetchTimers, widgetSize, config, cacheDir>>
      ]_vars

\* setZoom was called with a value above MAX_ZOOM on a ViewTransform already at
\* MAX_ZOOM, and emitted nothing
C30_Witness ==
    /\ last.op = "setZoom"
    /\ last.zoom > MAX_ZOOM
    /\ viewTransform.m_zoom = MAX_ZOOM
    /\ last.emitted = <<>>

====
